---- MODULE Spec2Model ----
(***************************************************************************)
(* Razorpay payment relay: the in-memory order store (ordersStore.js), the *)
(* create-order, verify-payment and razorpay-webhook handlers of           *)
(* server/index.js and the verify-payment router (verifyPayment.js).       *)
(*                                                                         *)
(* JavaScript values are modelled as strings: Undefined stands for the JS  *)
(* value undefined, "" for the empty string; both are falsy.  An HMAC hex  *)
(* digest is the injective string Hmac(key, message).                      *)
(***************************************************************************)
EXTENDS Integers, Sequences, FiniteSets, TLC

VARIABLES
    pc,        \* "boot" | "listening" | "exited"  (process life cycle)
    env,       \* process.env: the four variables the code reads
    orders,    \* ordersStore `orders` Map, as the sequence of its entries in insertion order
    inflight,  \* create-order requests suspended at `await rzp.orders.create`,
               \* told apart by their ourOrderId
    req,       \* the request of the exchange last handled (NoReq when none)
    resp,      \* the response sent for it
    pre,       \* the value of `orders` when that request arrived
    trace,     \* what the handler did for it, in program order
    tasks      \* handler invocations whose store steps are taken one at a time
               \* (used by SpecInterleaved only, empty otherwise)

vars == <<pc, env, orders, inflight, req, resp, pre, trace, tasks>>

----------------------------------------------------------------------------
(* Bounds of the model *)

\* Date.now() returns a value in 1..MaxClock when a create-order request arrives
MaxClock == 2

----------------------------------------------------------------------------
(* JavaScript values *)

Undefined == "<undefined>"

\* !x of the code is ~Truthy(x)
Truthy(x) == x \notin {Undefined, ""}

\* crypto.createHmac("sha256", key).update(message).digest("hex")
Hmac(key, message) == "hmac(" \o key \o "," \o message \o ")"

\* the secrets a deployment may hold
KeySecret == "key_secret"
WebhookSecret == "webhook_secret"

Times == 1..MaxClock
\* Math.random().toString(36).substr(2, 9)
Rands == {"x7k"}
\* order ids the gateway hands out
GatewayIds == {"order_abc", "order_xyz"}
PaymentIds == {"pay_123"}

----------------------------------------------------------------------------
(* ordersStore.js *)

NoOrder ==
    [found |-> FALSE, ourId |-> Undefined, amount |-> 0, currency |-> Undefined,
     razorpayOrderId |-> Undefined, status |-> Undefined, createdAt |-> 0]

\* index of the entry with key ourOrderId, 0 when the Map has none
IndexOf(os, ourOrderId) ==
    IF \E i \in 1..Len(os) : os[i].ourId = ourOrderId
    THEN CHOOSE i \in 1..Len(os) : os[i].ourId = ourOrderId
    ELSE 0

\* orders.set(ourOrderId, {..., status: "pending", createdAt: Date.now()})
\* Map.set on a key already present replaces its value and keeps its position
createLocalOrder(os, ourOrderId, amount, currency, razorpayOrderId, now) ==
    LET rec == [ourId |-> ourOrderId, amount |-> amount, currency |-> currency,
                razorpayOrderId |-> razorpayOrderId, status |-> "pending",
                createdAt |-> now]
        i == IndexOf(os, ourOrderId)
    IN IF i = 0 THEN Append(os, rec) ELSE [os EXCEPT ![i] = rec]

\* a plausible slip: the result reports whether the status changed
setOrderStatus_ReportsChange(os, ourOrderId, status) ==
    LET i == IndexOf(os, ourOrderId)
    IN IF i = 0 \/ os[i].status = status
       THEN [orders |-> os, ok |-> FALSE]
       ELSE [orders |-> [os EXCEPT ![i].status = status], ok |-> TRUE]

\* a plausible slip: an absent id gets a record made for it
setOrderStatus_Upsert(os, ourOrderId, status) ==
    LET i == IndexOf(os, ourOrderId)
    IN IF i = 0
       THEN [orders |-> Append(os, [ourId |-> ourOrderId, amount |-> 0,
                                    currency |-> Undefined,
                                    razorpayOrderId |-> Undefined,
                                    status |-> status, createdAt |-> 0]),
             ok |-> TRUE]
       ELSE [orders |-> [os EXCEPT ![i].status = status], ok |-> TRUE]

\* a plausible slip: the entry is written anew and its timestamp with it
setOrderStatus_Restamps(os, ourOrderId, status) ==
    LET i == IndexOf(os, ourOrderId)
    IN IF i = 0
       THEN [orders |-> os, ok |-> FALSE]
       ELSE [orders |-> [os EXCEPT ![i].status = status,
                                   ![i].createdAt = os[i].createdAt + 1],
             ok |-> TRUE]

\* returns [orders, ok]: ok = false and no change when the id is absent
setOrderStatus(os, ourOrderId, status) ==
    LET i == IndexOf(os, ourOrderId)
    IN IF i = 0
       THEN [orders |-> os, ok |-> FALSE]
       ELSE [orders |-> [os EXCEPT ![i].status = status], ok |-> TRUE]

\* a plausible slip: the loop returns on its first iteration, whatever the id
getByRazorpayOrderId_FirstEntry(os, rzpOrderId) ==
    IF os = <<>>
    THEN NoOrder
    ELSE [found |-> TRUE, ourId |-> os[1].ourId, amount |-> os[1].amount,
          currency |-> os[1].currency, razorpayOrderId |-> os[1].razorpayOrderId,
          status |-> os[1].status, createdAt |-> os[1].createdAt]

\* first entry in insertion order whose razorpayOrderId === rzpOrderId, or null
getByRazorpayOrderId(os, rzpOrderId) ==
    LET hits == {i \in 1..Len(os) : os[i].razorpayOrderId = rzpOrderId}
    IN IF hits = {}
       THEN NoOrder
       ELSE LET i == CHOOSE j \in hits : \A k \in hits : j <= k
            IN [found |-> TRUE, ourId |-> os[i].ourId, amount |-> os[i].amount,
                currency |-> os[i].currency,
                razorpayOrderId |-> os[i].razorpayOrderId,
                status |-> os[i].status, createdAt |-> os[i].createdAt]

\* the entry with key ourOrderId together with its key, or null
get(os, ourOrderId) ==
    LET i == IndexOf(os, ourOrderId)
    IN IF i = 0
       THEN NoOrder
       ELSE [found |-> TRUE, ourId |-> ourOrderId, amount |-> os[i].amount,
             currency |-> os[i].currency,
             razorpayOrderId |-> os[i].razorpayOrderId,
             status |-> os[i].status, createdAt |-> os[i].createdAt]

----------------------------------------------------------------------------
(* Responses and traces *)

Response(status, body, ourOrderId) ==
    [status |-> status, body |-> body, ourOrderId |-> ourOrderId]

\* no response sent (yet)
NoResponse == Response(0, Undefined, Undefined)

\* what a handler leaves behind: the store, the response, the steps it took
Outcome(os, r, tr) == [orders |-> os, resp |-> r, trace |-> tr]

----------------------------------------------------------------------------
(* verifyPayment.js: router.post('/verify-payment') *)

routerVerifyPayment(os, e, body) ==
    IF \/ ~Truthy(body.razorpay_order_id)
       \/ ~Truthy(body.razorpay_payment_id)
       \/ ~Truthy(body.razorpay_signature)
    THEN Outcome(os, Response(400, "missing fields", Undefined), <<>>)
    ELSE
    LET payload == body.razorpay_order_id \o "|" \o body.razorpay_payment_id
        \* process.env.RAZORPAY_KEY_SECRET || ''
        secret == IF Truthy(e.RAZORPAY_KEY_SECRET) THEN e.RAZORPAY_KEY_SECRET ELSE ""
        expected == Hmac(secret, payload)
    IN IF expected # body.razorpay_signature
       THEN Outcome(os, Response(400, "invalid signature", Undefined),
                    <<"hmac", "compare">>)
       ELSE
       LET local == getByRazorpayOrderId(os, body.razorpay_order_id)
       IN IF ~local.found
          THEN Outcome(os, Response(404, "order_not_found", Undefined),
                       <<"hmac", "compare", "signature_ok", "getByRazorpayOrderId">>)
          ELSE
          LET upd == setOrderStatus(os, local.ourId, "paid")
              tr == <<"hmac", "compare", "signature_ok", "getByRazorpayOrderId",
                      "setOrderStatus">>
          IN IF ~upd.ok
             THEN Outcome(upd.orders,
                          Response(500, "failed_to_update_order", Undefined), tr)
             ELSE Outcome(upd.orders, Response(200, "ok", local.ourId), tr)

----------------------------------------------------------------------------
(* server/index.js: app.post("/verify-payment") *)

\* a plausible slip: the lookup result is tested together with its status, so
\* an unknown order falls through to the success response
verifyPaymentVerified_UnknownFallsThrough(os, razorpay_order_id) ==
    LET local == getByRazorpayOrderId(os, razorpay_order_id)
    IN IF local.found /\ local.status # "paid"
       THEN Outcome(setOrderStatus(os, local.ourId, "paid").orders,
                    Response(200, "Payment verified successfully", local.ourId),
                    <<"getByRazorpayOrderId", "setOrderStatus">>)
       ELSE Outcome(os, Response(200, "Payment verified successfully", local.ourId),
                    <<"getByRazorpayOrderId">>)

\* the branch taken once the signature matched: look the order up, mark it paid
verifyPaymentVerified(os, razorpay_order_id) ==
    LET local == getByRazorpayOrderId(os, razorpay_order_id)
    IN IF local.found
       THEN IF local.status # "paid"
            THEN Outcome(setOrderStatus(os, local.ourId, "paid").orders,
                         Response(200, "Payment verified successfully", local.ourId),
                         <<"getByRazorpayOrderId", "setOrderStatus">>)
            ELSE Outcome(os,
                         Response(200, "Payment verified successfully", local.ourId),
                         <<"getByRazorpayOrderId">>)
       ELSE Outcome(os, Response(404, "Order not found", Undefined),
                    <<"getByRazorpayOrderId">>)

\* a plausible slip: the payment id is left out of the signed text
verifyPaymentCompare_OrderIdOnly(os, e, body) ==
    IF e.RZP_KEY_SECRET = Undefined
    THEN Outcome(os, Response(500, "Verification failed", Undefined), <<"throw">>)
    ELSE
    IF Hmac(e.RZP_KEY_SECRET, body.razorpay_order_id) = body.razorpay_signature
    THEN LET out == verifyPaymentVerified(os, body.razorpay_order_id)
         IN Outcome(out.orders, out.resp,
                    <<"hmac", "compare", "signature_ok">> \o out.trace)
    ELSE Outcome(os, Response(400, "Invalid signature", Undefined),
                 <<"hmac", "compare">>)

\* the signature comparison and what follows it
verifyPaymentCompare(os, e, body) ==
    IF e.RZP_KEY_SECRET = Undefined
    \* crypto.createHmac throws on an undefined key; the catch block answers
    THEN Outcome(os, Response(500, "Verification failed", Undefined), <<"throw">>)
    ELSE
    LET text == body.razorpay_order_id \o "|" \o body.razorpay_payment_id
        expectedSignature == Hmac(e.RZP_KEY_SECRET, text)
    IN IF expectedSignature = body.razorpay_signature
       THEN LET out == verifyPaymentVerified(os, body.razorpay_order_id)
            IN Outcome(out.orders, out.resp,
                       <<"hmac", "compare", "signature_ok">> \o out.trace)
       ELSE Outcome(os, Response(400, "Invalid signature", Undefined),
                    <<"hmac", "compare">>)

\* a plausible slip: the else branch is lost and every complete callback is
\* treated as verified
verifyPayment_NoElse(os, e, body) ==
    IF \/ ~Truthy(body.razorpay_order_id)
       \/ ~Truthy(body.razorpay_payment_id)
       \/ ~Truthy(body.razorpay_signature)
    THEN Outcome(os, Response(400, "Missing required fields", Undefined), <<>>)
    ELSE LET out == verifyPaymentVerified(os, body.razorpay_order_id)
         IN Outcome(out.orders, out.resp,
                    <<"hmac", "compare", "signature_ok">> \o out.trace)

\* a plausible slip: the presence check forgets the signature
verifyPayment_SignatureUnchecked(os, e, body) ==
    IF \/ ~Truthy(body.razorpay_order_id)
       \/ ~Truthy(body.razorpay_payment_id)
    THEN Outcome(os, Response(400, "Missing required fields", Undefined), <<>>)
    ELSE verifyPaymentCompare(os, e, body)

verifyPayment(os, e, body) ==
    IF \/ ~Truthy(body.razorpay_order_id)
       \/ ~Truthy(body.razorpay_payment_id)
       \/ ~Truthy(body.razorpay_signature)
    THEN Outcome(os, Response(400, "Missing required fields", Undefined), <<>>)
    ELSE verifyPaymentCompare(os, e, body)

----------------------------------------------------------------------------
(* server/index.js: webhook handler functions *)

\* payload.payment?.entity?.order_id
PaymentOrderId(payload) ==
    IF payload.payment = "entity" THEN payload.order_id ELSE Undefined

\* payload.order?.entity?.id
OrderEntityId(payload) ==
    IF payload.order = "entity" THEN payload.id ELSE Undefined

\* `payload.payment` on an undefined or null payload throws a TypeError
Throws(payload) == payload.kind \in {"undefined", "null"}

\* each returns [orders, trace]; the try/catch of the function keeps a throw inside
Handled(os, tr) == [orders |-> os, trace |-> tr]

handleSuccessfulPayment(os, payload) ==
    IF Throws(payload) THEN Handled(os, <<"TypeError">>)
    ELSE
    LET rzpOrderId == IF Truthy(PaymentOrderId(payload))
                      THEN PaymentOrderId(payload)
                      ELSE OrderEntityId(payload)
    IN IF ~Truthy(rzpOrderId) THEN Handled(os, <<>>)
       ELSE
       LET local == getByRazorpayOrderId(os, rzpOrderId)
       IN IF ~local.found THEN Handled(os, <<"getByRazorpayOrderId">>)
          ELSE IF local.status = "paid" THEN Handled(os, <<"getByRazorpayOrderId">>)
          ELSE Handled(setOrderStatus(os, local.ourId, "paid").orders,
                       <<"getByRazorpayOrderId", "setOrderStatus">>)

\* a plausible slip: the status is written without looking at the current one
handleFailedPayment_NoGuard(os, payload) ==
    IF Throws(payload) THEN Handled(os, <<"TypeError">>)
    ELSE
    LET rzpOrderId == PaymentOrderId(payload)
    IN IF ~Truthy(rzpOrderId) THEN Handled(os, <<>>)
       ELSE
       LET local == getByRazorpayOrderId(os, rzpOrderId)
       IN IF local.found
          THEN Handled(setOrderStatus(os, local.ourId, "failed").orders,
                       <<"getByRazorpayOrderId", "setOrderStatus">>)
          ELSE Handled(os, <<"getByRazorpayOrderId">>)

handleFailedPayment(os, payload) ==
    IF Throws(payload) THEN Handled(os, <<"TypeError">>)
    ELSE
    LET rzpOrderId == PaymentOrderId(payload)
    IN IF ~Truthy(rzpOrderId) THEN Handled(os, <<>>)
       ELSE
       LET local == getByRazorpayOrderId(os, rzpOrderId)
       IN IF local.found /\ local.status # "failed"
          THEN Handled(setOrderStatus(os, local.ourId, "failed").orders,
                       <<"getByRazorpayOrderId", "setOrderStatus">>)
          ELSE Handled(os, <<"getByRazorpayOrderId">>)

handlePendingPayment(os, payload) ==
    IF Throws(payload) THEN Handled(os, <<"TypeError">>)
    ELSE
    LET rzpOrderId == PaymentOrderId(payload)
    IN IF ~Truthy(rzpOrderId) THEN Handled(os, <<>>)
       ELSE
       LET local == getByRazorpayOrderId(os, rzpOrderId)
       IN IF local.found /\ local.status # "pending"
          THEN Handled(setOrderStatus(os, local.ourId, "pending").orders,
                       <<"getByRazorpayOrderId", "setOrderStatus">>)
          ELSE Handled(os, <<"getByRazorpayOrderId">>)

\* only logs
handleRefund(os, payload) ==
    IF Throws(payload) THEN Handled(os, <<"TypeError">>) ELSE Handled(os, <<>>)

----------------------------------------------------------------------------
(* server/index.js: bodyParser.json verify hook and app.post("/razorpay-webhook") *)

EmptyPayload ==
    [kind |-> "undefined", payment |-> "absent", order_id |-> Undefined,
     order |-> "absent", id |-> Undefined]

\* req.body when body-parser parsed nothing: {}
EmptyBody == [event |-> Undefined, payload |-> EmptyPayload]

\* a request on the wire: json says whether body-parser parses it (a JSON
\* content type and a body); text is the bytes sent, value what they parse to
bodyParserJson(wire) ==
    IF wire.json
    THEN [rawBody |-> wire.text, body |-> wire.value]
    ELSE [rawBody |-> Undefined, body |-> EmptyBody]

SuccessEvents == {"payment.captured", "payment.authorized", "order.paid"}

\* a plausible slip: the payment.authorized case label is missing
Dispatch_NoAuthorized(os, event, payload) ==
    IF event \in {"payment.captured", "order.paid"}
    THEN handleSuccessfulPayment(os, payload)
    ELSE IF event = "payment.failed" THEN handleFailedPayment(os, payload)
    ELSE IF event = "payment.pending" THEN handlePendingPayment(os, payload)
    ELSE IF event = "refund.created" THEN handleRefund(os, payload)
    ELSE Handled(os, <<>>)

\* a plausible slip: a break is missing and refund.created, like every event
\* the switch does not name, ends in the payment.failed case
Dispatch_FallsIntoFailed(os, event, payload) ==
    IF event \in SuccessEvents THEN handleSuccessfulPayment(os, payload)
    ELSE IF event = "payment.pending" THEN handlePendingPayment(os, payload)
    ELSE handleFailedPayment(os, payload)

\* the switch on the event name
Dispatch(os, event, payload) ==
    IF event \in SuccessEvents THEN handleSuccessfulPayment(os, payload)
    ELSE IF event = "payment.failed" THEN handleFailedPayment(os, payload)
    ELSE IF event = "payment.pending" THEN handlePendingPayment(os, payload)
    ELSE IF event = "refund.created" THEN handleRefund(os, payload)
    ELSE Handled(os, <<>>)

\* the outcome of the checks that open the handler: pass, or the response sent
Checked(pass, r, tr) == [pass |-> pass, resp |-> r, trace |-> tr]

\* a plausible slip: the event is read (for the log line) before the checks
webhookSignatureCheck_LogsEventFirst(e, r) ==
    LET secret == e.RZP_WEBHOOK_SECRET
    IN IF ~Truthy(secret)
       THEN Checked(FALSE, Response(500, "Server misconfiguration", Undefined),
                    <<"req.body.event">>)
       ELSE IF ~Truthy(r.signature)
       THEN Checked(FALSE, Response(400, "Missing signature", Undefined),
                    <<"req.body.event">>)
       ELSE IF r.rawBody = Undefined
       THEN Checked(FALSE, Response(200, "error", Undefined),
                    <<"req.body.event", "throw">>)
       ELSE IF Hmac(secret, r.rawBody) # r.signature
       THEN Checked(FALSE, Response(400, "Invalid signature", Undefined),
                    <<"req.body.event", "hmac", "compare">>)
       ELSE Checked(TRUE, NoResponse, <<"req.body.event", "hmac", "compare",
                                        "signature_ok">>)

\* r = [signature (the x-razorpay-signature header), rawBody, body]
webhookSignatureCheck(e, r) ==
    LET secret == e.RZP_WEBHOOK_SECRET
    IN IF ~Truthy(secret)
       THEN Checked(FALSE, Response(500, "Server misconfiguration", Undefined), <<>>)
       ELSE IF ~Truthy(r.signature)
       THEN Checked(FALSE, Response(400, "Missing signature", Undefined), <<>>)
       ELSE IF r.rawBody = Undefined
       \* hmac.update(undefined) throws; the catch block still acknowledges
       THEN Checked(FALSE, Response(200, "error", Undefined), <<"throw">>)
       ELSE IF Hmac(secret, r.rawBody) # r.signature
       THEN Checked(FALSE, Response(400, "Invalid signature", Undefined),
                    <<"hmac", "compare">>)
       ELSE Checked(TRUE, NoResponse, <<"hmac", "compare", "signature_ok">>)

\* a plausible slip: the handler functions lose their try/catch and a throw in
\* one of them is answered as a server error
webhookVerified_Uncaught(os, body) ==
    LET h == Dispatch(os, body.event, body.payload)
    IN IF \E k \in 1..Len(h.trace) : h.trace[k] = "TypeError"
       THEN Outcome(os, Response(500, "Internal Server Error", Undefined),
                    <<"req.body.event", "req.body.payload">> \o h.trace)
       ELSE Outcome(h.orders, Response(200, "ok", Undefined),
                    <<"req.body.event", "req.body.payload">> \o h.trace)

\* after the signature matched: read event and payload, dispatch, acknowledge
webhookVerified(os, body) ==
    LET h == Dispatch(os, body.event, body.payload)
    IN Outcome(h.orders, Response(200, "ok", Undefined),
               <<"req.body.event", "req.body.payload">> \o h.trace)

razorpayWebhook(os, e, r) ==
    LET c == webhookSignatureCheck(e, r)
    IN IF ~c.pass
       THEN Outcome(os, c.resp, c.trace)
       ELSE LET out == webhookVerified(os, r.body)
            IN Outcome(out.orders, out.resp, c.trace \o out.trace)

----------------------------------------------------------------------------
(* server/index.js: app.get("/order-status/:ourOrderId") *)

orderStatus(os, ourId) ==
    IF ~Truthy(ourId)
    THEN Outcome(os, Response(400, "Order ID required", Undefined), <<>>)
    ELSE LET order == get(os, ourId)
         IN IF ~order.found
            THEN Outcome(os, Response(404, "Order not found", Undefined), <<"get">>)
            ELSE Outcome(os,
                         [status |-> 200, body |-> "order", ourOrderId |-> order.ourId,
                          order |-> [status |-> order.status,
                                     razorpayOrderId |-> order.razorpayOrderId,
                                     amount |-> order.amount,
                                     currency |-> order.currency]],
                         <<"get">>)

----------------------------------------------------------------------------
(* server/index.js: app.post("/create-order") *)

\* an amount is [isNumber, milli]: typeof amount === "number" and its value in
\* thousandths of a currency unit (100000 is 100.00)
validCurrencies == {"INR", "USD", "EUR", "GBP"}

\* const { amount, currency = "INR" } = req.body
CurrencyOf(body) == IF body.currency = Undefined THEN "INR" ELSE body.currency

\* the validation of the handler: the error it answers with, "" when it passes
createOrderError(body) ==
    IF \/ body.amount.milli = 0
       \/ ~body.amount.isNumber
       \/ body.amount.milli <= 0
    THEN "Invalid amount"
    \* Math.round(amount * 100) !== amount * 100
    ELSE IF body.amount.milli % 10 # 0
    THEN "Amount can have maximum 2 decimal places"
    ELSE IF CurrencyOf(body) \notin validCurrencies
    THEN "Invalid currency"
    ELSE ""

\* `order_${Date.now()}_${Math.random().toString(36).substr(2, 9)}`
OurOrderId(now, rand) == "order_" \o ToString(now) \o "_" \o rand

----------------------------------------------------------------------------
(* Inputs *)

NoReq == [route |-> "none"]

Envs ==
    [RZP_KEY_ID : {Undefined, "rzp_test_key"},
     RZP_KEY_SECRET : {Undefined, KeySecret},
     RZP_WEBHOOK_SECRET : {Undefined, WebhookSecret},
     RAZORPAY_KEY_SECRET : {Undefined, KeySecret}]

AmountInputs ==
    {[isNumber |-> TRUE, milli |-> 100000], [isNumber |-> TRUE, milli |-> 0],
     [isNumber |-> TRUE, milli |-> 0 - 5000], [isNumber |-> TRUE, milli |-> 1005],
     [isNumber |-> FALSE, milli |-> 100000]}
CurrencyInputs == {Undefined, "INR", "XYZ"}
CreateInputs == [amount : AmountInputs, currency : CurrencyInputs]

\* a verify-payment body: each field absent, empty or present; the signature is
\* absent, empty, garbage, or a digest under one of the keys a handler may use
CallbackTexts == {o \o "|" \o p : o \in GatewayIds, p \in PaymentIds}
CallbackSignatures ==
    {Undefined, "", "forged"}
        \cup {Hmac(k, t) : k \in {KeySecret, ""}, t \in CallbackTexts}
Missing(body) ==
    {f \in {"razorpay_order_id", "razorpay_payment_id", "razorpay_signature"} :
        ~Truthy(body[f])}
\* complete bodies, bodies with one field absent or empty, and the empty body
CallbackInputs ==
    {b \in [razorpay_order_id : {Undefined, ""} \cup GatewayIds,
            razorpay_payment_id : {Undefined, ""} \cup PaymentIds,
            razorpay_signature : CallbackSignatures] :
        \/ Cardinality(Missing(b)) <= 1
        \/ \A f \in Missing(b) : b[f] = Undefined /\ Cardinality(Missing(b)) = 3}

EventInputs ==
    SuccessEvents \cup {"payment.failed", "payment.pending", "refund.created",
                        "subscription.charged"}
PayloadInputs ==
    {[EmptyPayload EXCEPT !.kind = k] : k \in {"undefined", "null"}}
        \cup {[kind |-> "object", payment |-> p[1], order_id |-> p[2],
               order |-> o[1], id |-> o[2]] :
                p \in {<<"absent", Undefined>>}
                        \cup {<<"entity", g>> : g \in {Undefined} \cup GatewayIds},
                o \in {<<"absent", Undefined>>}
                        \cup {<<"entity", g>> : g \in GatewayIds}}

\* JSON.stringify of a webhook body (the bytes the sender signs)
PayloadText(p) ==
    IF p.kind = "undefined" THEN ""
    ELSE IF p.kind = "null" THEN ",payload:null"
    ELSE ",payload:{"
            \o (IF p.payment = "entity"
                THEN "payment:{entity:{"
                        \o (IF p.order_id = Undefined THEN ""
                            ELSE "order_id:" \o p.order_id)
                        \o "}}"
                ELSE "")
            \o (IF p.order = "entity"
                THEN "order:{entity:{"
                        \o (IF p.id = Undefined THEN "" ELSE "id:" \o p.id)
                        \o "}}"
                ELSE "")
            \o "}"
Stringify(v) == "{event:" \o v.event \o PayloadText(v.payload) \o "}"

BodyInputs == [event : EventInputs, payload : PayloadInputs]
\* the bodies sent with a header that is not the gateway's digest: every event
\* with a payload naming an order, and one event with every payload
TamperedBodyInputs ==
    {v \in BodyInputs :
        \/ v.event = "payment.captured"
        \/ /\ v.payload.kind = "object" /\ v.payload.order_id = "order_abc"
           /\ v.payload.order = "absent"}

Wire(v) == [json |-> TRUE, text |-> Stringify(v), value |-> v]
\* a request body-parser does not parse (another content type)
PlainWire == [json |-> FALSE, text |-> "event=payment.captured", value |-> EmptyBody]

\* webhook deliveries as [wire, signature]: the x-razorpay-signature header is
\* the gateway's digest of the bytes, or absent, garbage or a digest under the
\* wrong secret
WebhookInputs ==
    {[wire |-> Wire(v), signature |-> Hmac(WebhookSecret, Stringify(v))] :
        v \in BodyInputs}
        \cup {[wire |-> Wire(v), signature |-> h[v]] :
                v \in TamperedBodyInputs,
                h \in {[w \in BodyInputs |-> Undefined], [w \in BodyInputs |-> "forged"],
                       [w \in BodyInputs |-> Hmac(KeySecret, Stringify(w))]}}
        \cup {[wire |-> PlainWire, signature |-> h] :
                h \in {Undefined, "forged", Hmac(WebhookSecret, PlainWire.text)}}

\* the :ourOrderId of a status query: an id create-order can generate, or not
UnknownLocalId == "order_unknown"
OrderStatusInputs ==
    {OurOrderId(now, rand) : now \in Times, rand \in Rands} \cup {UnknownLocalId}

----------------------------------------------------------------------------
(* The server as a state machine *)

Init ==
    /\ pc = "boot"
    /\ env \in Envs
    /\ orders = <<>>
    /\ inflight = {}
    /\ req = NoReq
    /\ resp = NoResponse
    /\ pre = <<>>
    /\ trace = <<>>
    /\ tasks = <<>>

\* server/index.js section 1: exit unless the required variables are set
requiredEnvVars == {"RZP_KEY_ID", "RZP_KEY_SECRET", "RZP_WEBHOOK_SECRET"}
missingVars(e) == {v \in requiredEnvVars : ~Truthy(e[v])}

Startup ==
    /\ pc = "boot"
    /\ pc' = IF missingVars(env) # {} THEN "exited" ELSE "listening"
    /\ UNCHANGED <<env, orders, inflight, req, resp, pre, trace, tasks>>

\* the event loop runs one handler at a time, to its return or its await
Idle == pc = "listening" /\ req = NoReq

Exchange(r, out) ==
    /\ req' = r
    /\ resp' = out.resp
    /\ trace' = out.trace
    /\ pre' = orders
    /\ orders' = out.orders
    /\ UNCHANGED <<pc, env, tasks>>

\* a plausible slip: the mapping is saved before the gateway is asked
CreateOrder_SavesFirst ==
    /\ Idle
    /\ \E body \in CreateInputs, now \in Times, rand \in Rands :
        LET r == [route |-> "create-order", amount |-> body.amount,
                  currency |-> body.currency, ourOrderId |-> OurOrderId(now, rand)]
        IN /\ inflight' = inflight \cup
                    {[ourOrderId |-> OurOrderId(now, rand), issuedAt |-> now,
                      amount |-> body.amount, currency |-> CurrencyOf(body)]}
           /\ Exchange(r, Outcome(createLocalOrder(orders, OurOrderId(now, rand),
                                                   body.amount, CurrencyOf(body),
                                                   Undefined, now),
                                  NoResponse, <<"rzp.orders.create">>))

\* create-order up to `await rzp.orders.create(options)`
CreateOrder ==
    /\ Idle
    /\ \E body \in CreateInputs, now \in Times, rand \in Rands :
        LET r == [route |-> "create-order", amount |-> body.amount,
                  currency |-> body.currency, ourOrderId |-> Undefined]
            err == createOrderError(body)
        IN IF err # ""
           THEN /\ Exchange(r, Outcome(orders, Response(400, err, Undefined), <<>>))
                /\ UNCHANGED inflight
           ELSE /\ inflight' = inflight \cup
                        {[ourOrderId |-> OurOrderId(now, rand), issuedAt |-> now,
                          amount |-> body.amount, currency |-> CurrencyOf(body)]}
                /\ Exchange([r EXCEPT !.ourOrderId = OurOrderId(now, rand)],
                            Outcome(orders, NoResponse, <<"rzp.orders.create">>))

\* the gateway answers with an order: createLocalOrder, then the response
GatewayReturns ==
    /\ Idle
    \* Date.now() of createLocalOrder: the gateway took one tick to answer
    /\ \E c \in inflight, id \in GatewayIds :
        /\ inflight' = inflight \ {c}
        /\ Exchange([route |-> "create-order", amount |-> c.amount,
                     currency |-> c.currency, ourOrderId |-> c.ourOrderId],
                    Outcome(createLocalOrder(orders, c.ourOrderId, c.amount,
                                             c.currency, id, c.issuedAt + 1),
                            Response(200, "created", c.ourOrderId),
                            <<"createLocalOrder">>))

\* the gateway call rejects: the catch block answers 500
GatewayThrows ==
    /\ Idle
    /\ \E c \in inflight :
        /\ inflight' = inflight \ {c}
        /\ Exchange([route |-> "create-order", amount |-> c.amount,
                     currency |-> c.currency, ourOrderId |-> c.ourOrderId],
                    Outcome(orders, Response(500, "Failed to create order", Undefined),
                            <<"throw">>))

VerifyPayment ==
    /\ Idle
    /\ \E body \in CallbackInputs :
        Exchange([route |-> "verify-payment", body |-> body],
                 verifyPayment(orders, env, body))
    /\ UNCHANGED inflight

RouterVerifyPayment ==
    /\ Idle
    /\ \E body \in CallbackInputs :
        Exchange([route |-> "router/verify-payment", body |-> body],
                 routerVerifyPayment(orders, env, body))
    /\ UNCHANGED inflight

RazorpayWebhook ==
    /\ Idle
    /\ \E in \in WebhookInputs :
        LET parsed == bodyParserJson(in.wire)
            r == [signature |-> in.signature, rawBody |-> parsed.rawBody,
                  body |-> parsed.body]
        IN Exchange([route |-> "razorpay-webhook", text |-> in.wire.text,
                     signature |-> r.signature, rawBody |-> r.rawBody,
                     body |-> r.body],
                    razorpayWebhook(orders, env, r))
    /\ UNCHANGED inflight

OrderStatus ==
    /\ Idle
    /\ \E ourId \in OrderStatusInputs :
        Exchange([route |-> "order-status", ourOrderId |-> ourId],
                 orderStatus(orders, ourId))
    /\ UNCHANGED inflight

\* the response is out and the handler has returned
Done ==
    /\ pc = "listening"
    /\ req # NoReq
    /\ req' = NoReq
    /\ resp' = NoResponse
    /\ pre' = <<>>
    /\ trace' = <<>>
    /\ UNCHANGED <<pc, env, orders, inflight, tasks>>

Next ==
    \/ Startup
    \/ CreateOrder
    \/ GatewayReturns
    \/ GatewayThrows
    \/ VerifyPayment
    \/ RouterVerifyPayment
    \/ RazorpayWebhook
    \/ OrderStatus
    \/ Done

Spec == Init /\ [][Next]_vars

----------------------------------------------------------------------------
(* ordersStore.js on its own: the exported functions called with any         *)
(* arguments, ids the store has never seen included                          *)

\* a JavaScript boolean return value
JsBoolean(b) == IF b THEN "true" ELSE "false"

StoreLocalIds == {OurOrderId(1, "x7k"), OurOrderId(2, "x7k")}
AbsentLocalId == "order_0_none"
AbsentGatewayId == "order_none"
Statuses == {"pending", "paid", "failed"}
StoreAmount == [isNumber |-> TRUE, milli |-> 100000]

\* a call of a store function: its arguments in req, its return value in resp
StoreCall(call, os, value) ==
    /\ req' = call
    /\ resp' = [value |-> value]
    /\ trace' = <<call.route>>
    /\ pre' = orders
    /\ orders' = os
    /\ UNCHANGED <<pc, env, inflight, tasks>>

InitStore ==
    /\ pc = "required"
    /\ env = [v \in {"RZP_KEY_ID", "RZP_KEY_SECRET", "RZP_WEBHOOK_SECRET",
                     "RAZORPAY_KEY_SECRET"} |-> Undefined]
    /\ orders = <<>>
    /\ inflight = {}
    /\ req = NoReq
    /\ resp = NoResponse
    /\ pre = <<>>
    /\ trace = <<>>
    /\ tasks = <<>>

StoreCreateLocalOrder ==
    \E id \in StoreLocalIds, g \in GatewayIds, now \in Times :
        StoreCall([route |-> "createLocalOrder", ourOrderId |-> id,
                   amount |-> StoreAmount, currency |-> "INR",
                   razorpayOrderId |-> g, now |-> now],
                  createLocalOrder(orders, id, StoreAmount, "INR", g, now),
                  Undefined)

StoreSetOrderStatus ==
    \E id \in StoreLocalIds \cup {AbsentLocalId}, status \in Statuses :
        LET upd == setOrderStatus(orders, id, status)
        IN StoreCall([route |-> "setOrderStatus", ourOrderId |-> id,
                      status |-> status],
                     upd.orders, JsBoolean(upd.ok))

StoreGetByRazorpayOrderId ==
    \E g \in GatewayIds \cup {AbsentGatewayId} :
        StoreCall([route |-> "getByRazorpayOrderId", rzpOrderId |-> g],
                  orders, getByRazorpayOrderId(orders, g))

StoreGet ==
    \E id \in StoreLocalIds \cup {AbsentLocalId} :
        StoreCall([route |-> "get", ourOrderId |-> id], orders, get(orders, id))

NextStore ==
    \/ StoreCreateLocalOrder
    \/ StoreSetOrderStatus
    \/ StoreGetByRazorpayOrderId
    \/ StoreGet

SpecStore == InitStore /\ [][NextStore]_vars

----------------------------------------------------------------------------
(* The callback signature check on ids spelled out character by character,   *)
(* so that a request can differ from the signed one in a single position     *)

\* longest razorpay_order_id / razorpay_payment_id tried, in characters
MaxIdLen == 2

\* the characters ids are made of; the separator of the signed text is one
Alphabet == {"a", "|"}
IdTexts == UNION {[1..n -> Alphabet] : n \in 1..MaxIdLen}

RECURSIVE Join(_)
\* the string a sequence of characters spells
Join(chars) == IF chars = <<>> THEN "" ELSE Head(chars) \o Join(Tail(chars))

\* the texts that differ from chars in exactly one position
Tampered(chars) ==
    UNION {{[chars EXCEPT ![i] = c] : c \in Alphabet \ {chars[i]}} :
            i \in 1..Len(chars)}

\* razorpay_order_id + "|" + razorpay_payment_id, character by character
SignedText(o, p) == o \o <<"|">> \o p

\* the key each verify-payment handler computes the digest with
signingSecret(route, e) ==
    IF route = "verify-payment" THEN e.RZP_KEY_SECRET
    ELSE IF Truthy(e.RAZORPAY_KEY_SECRET) THEN e.RAZORPAY_KEY_SECRET ELSE ""

CallbackRoutes == {"verify-payment", "router/verify-payment"}

callbackHandler(route, os, e, body) ==
    IF route = "verify-payment" THEN verifyPayment(os, e, body)
    ELSE routerVerifyPayment(os, e, body)

SignatureEnvs ==
    [RZP_KEY_ID : {"rzp_test_key"},
     RZP_KEY_SECRET : {KeySecret, "other_secret"},
     RZP_WEBHOOK_SECRET : {WebhookSecret},
     RAZORPAY_KEY_SECRET : {Undefined, KeySecret}]

\* the store is empty or holds the order the gateway knows as "a"
SignatureLedgers ==
    {<<>>, createLocalOrder(<<>>, OurOrderId(1, "x7k"), StoreAmount, "INR", "a", 1)}

InitSignature ==
    /\ pc = "listening"
    /\ env \in SignatureEnvs
    /\ orders \in SignatureLedgers
    /\ inflight = {}
    /\ req = NoReq
    /\ resp = NoResponse
    /\ pre = <<>>
    /\ trace = <<>>
    /\ tasks = <<>>

\* a callback as the gateway's checkout signed it
SignedCallback ==
    /\ Idle
    /\ \E route \in CallbackRoutes, o \in IdTexts, p \in IdTexts :
        LET body == [razorpay_order_id |-> Join(o), razorpay_payment_id |-> Join(p),
                     razorpay_signature |->
                        Hmac(signingSecret(route, env), Join(SignedText(o, p)))]
        IN Exchange([route |-> route, body |-> body, signedOrderId |-> Join(o),
                     signedPaymentId |-> Join(p), tampered |-> "none"],
                    callbackHandler(route, orders, env, body))
    /\ UNCHANGED inflight

\* the same callback with one character of one field changed on the way
TamperedCallback ==
    /\ Idle
    /\ \E route \in CallbackRoutes, o \in IdTexts, p \in IdTexts,
          field \in {"razorpay_order_id", "razorpay_payment_id",
                     "razorpay_signature"} :
        LET signed == [razorpay_order_id |-> Join(o),
                       razorpay_payment_id |-> Join(p),
                       razorpay_signature |->
                          Hmac(signingSecret(route, env), Join(SignedText(o, p)))]
            changes ==
                IF field = "razorpay_order_id" THEN {Join(t) : t \in Tampered(o)}
                ELSE IF field = "razorpay_payment_id"
                THEN {Join(t) : t \in Tampered(p)}
                ELSE {Hmac(signingSecret(route, env), Join(t)) :
                        t \in Tampered(SignedText(o, p))}
        IN \E v \in changes :
            LET body == [signed EXCEPT ![field] = v]
            IN Exchange([route |-> route, body |-> body,
                         signedOrderId |-> Join(o), signedPaymentId |-> Join(p),
                         tampered |-> field],
                        callbackHandler(route, orders, env, body))
    /\ UNCHANGED inflight

NextSignature ==
    \/ SignedCallback
    \/ TamperedCallback
    \/ Done

SpecSignature == InitSignature /\ [][NextSignature]_vars

----------------------------------------------------------------------------
(* Vocabulary of the properties *)

IsCallback == req.route \in {"verify-payment", "router/verify-payment"}
IsWebhook == req.route = "razorpay-webhook"

\* the secret each verify-payment handler signs with
CallbackSecret ==
    IF req.route = "verify-payment" THEN env.RZP_KEY_SECRET
    ELSE IF Truthy(env.RAZORPAY_KEY_SECRET) THEN env.RAZORPAY_KEY_SECRET ELSE ""

\* the handler of the exchange last handled, applied once more to a store
Again(os) ==
    IF req.route = "verify-payment" THEN verifyPayment(os, env, req.body)
    ELSE IF req.route = "router/verify-payment"
    THEN routerVerifyPayment(os, env, req.body)
    ELSE razorpayWebhook(os, env, req)

CallbackComplete == Missing(req.body) = {}
CallbackSigned ==
    /\ CallbackComplete
    /\ req.body.razorpay_signature =
        Hmac(CallbackSecret,
             req.body.razorpay_order_id \o "|" \o req.body.razorpay_payment_id)

\* the header is the digest of the bytes sent, under the webhook secret
WebhookSigned == req.signature = Hmac(env.RZP_WEBHOOK_SECRET, req.text)

\* position in the store of the order a gateway order id stands for, 0 if none
Resolve(os, g) ==
    IF \E i \in 1..Len(os) : os[i].razorpayOrderId = g
    THEN CHOOSE i \in 1..Len(os) :
            /\ os[i].razorpayOrderId = g
            /\ \A j \in 1..(i - 1) : os[j].razorpayOrderId # g
    ELSE 0

\* the gateway order id a webhook body names: the payment entity's order_id,
\* for the success events else the order entity's id
NamedOrderId(body) ==
    IF body.payload.kind # "object" THEN Undefined
    ELSE IF body.event \in {"payment.failed", "payment.pending"}
    THEN PaymentOrderId(body.payload)
    ELSE IF body.event \in SuccessEvents
    THEN IF Truthy(PaymentOrderId(body.payload))
         THEN PaymentOrderId(body.payload)
         ELSE OrderEntityId(body.payload)
    ELSE Undefined

LedgerOps == {"getByRazorpayOrderId", "setOrderStatus", "createLocalOrder"}
Did(tr, what) == \E k \in 1..Len(tr) : tr[k] = what

----------------------------------------------------------------------------
(* Handlers for one order with their store steps interleaved.  Node runs a   *)
(* handler from its lookup to its write without yielding (there is no await  *)
(* between them), so the program itself only ever takes the serial           *)
(* schedules; here the lookup and the write are separate steps and any       *)
(* schedule of them may happen, the serial ones included.                    *)

\* handlers in progress at once
MaxTasks == 2

SameOrder == "order_abc"

InterleavedEnv ==
    [RZP_KEY_ID |-> "rzp_test_key", RZP_KEY_SECRET |-> KeySecret,
     RZP_WEBHOOK_SECRET |-> WebhookSecret, RAZORPAY_KEY_SECRET |-> KeySecret]

\* a correctly signed verify-payment callback for SameOrder
CallbackFor(route) ==
    [route |-> route,
     body |-> [razorpay_order_id |-> SameOrder, razorpay_payment_id |-> "pay_123",
               razorpay_signature |->
                    Hmac(KeySecret, SameOrder \o "|" \o "pay_123")]]

\* a correctly signed webhook delivery of an event for SameOrder
WebhookFor(event) ==
    LET v == [event |-> event,
              payload |-> [kind |-> "object", payment |-> "entity",
                           order_id |-> SameOrder, order |-> "absent",
                           id |-> Undefined]]
        parsed == bodyParserJson(Wire(v))
    IN [route |-> "razorpay-webhook", text |-> Stringify(v),
        signature |-> Hmac(WebhookSecret, Stringify(v)),
        rawBody |-> parsed.rawBody, body |-> parsed.body]

InterleavedRequests ==
    {CallbackFor(route) : route \in CallbackRoutes}
        \cup {WebhookFor(event) :
                event \in SuccessEvents \cup {"payment.failed", "payment.pending"}}

\* the store after a handler has run from start to end
handled(os, r) ==
    IF r.route = "verify-payment" THEN verifyPayment(os, InterleavedEnv, r.body).orders
    ELSE IF r.route = "router/verify-payment"
    THEN routerVerifyPayment(os, InterleavedEnv, r.body).orders
    ELSE razorpayWebhook(os, InterleavedEnv, r).orders

\* the status the handler of a request sets
statusSet(r) ==
    IF r.route \in CallbackRoutes \/ r.body.event \in SuccessEvents THEN "paid"
    ELSE IF r.body.event = "payment.failed" THEN "failed"
    ELSE "pending"

\* first store step of a handler: const local = getByRazorpayOrderId(...)
lookupStep(os, r) ==
    getByRazorpayOrderId(os, IF r.route \in CallbackRoutes
                             THEN r.body.razorpay_order_id
                             ELSE NamedOrderId(r.body))

\* a plausible slip: the terminal status paid is never left
writeStep_KeepsPaid(os, r, local) ==
    IF local.status # "paid" /\ local.status # statusSet(r)
    THEN setOrderStatus(os, local.ourId, statusSet(r)).orders
    ELSE os

\* second store step: setOrderStatus(local.ourId, ...) if the record looked up
\* has another status (the router writes whatever the status)
writeStep(os, r, local) ==
    IF r.route = "router/verify-payment" \/ local.status # statusSet(r)
    THEN setOrderStatus(os, local.ourId, statusSet(r)).orders
    ELSE os

\* the store after one more order, moved to a status
Settled(os, ourOrderId, razorpayOrderId, now, status) ==
    setOrderStatus(createLocalOrder(os, ourOrderId, StoreAmount, "INR",
                                    razorpayOrderId, now),
                   ourOrderId, status).orders

\* no order, SameOrder alone, or SameOrder after another order
InterleavedLedgers ==
    {<<>>}
        \cup {Settled(<<>>, OurOrderId(1, "x7k"), SameOrder, 2, s) : s \in Statuses}
        \cup {Settled(Settled(<<>>, OurOrderId(1, "x7k"), "order_xyz", 2, s1),
                      OurOrderId(2, "x7k"), SameOrder, 3, s2) :
                s1 \in Statuses, s2 \in Statuses}

InitInterleaved ==
    /\ pc = "listening"
    /\ env = InterleavedEnv
    /\ orders \in InterleavedLedgers
    /\ pre = orders
    /\ tasks \in [1..MaxTasks ->
                    {[request |-> r, at |-> "start", local |-> NoOrder] :
                        r \in InterleavedRequests}]
    /\ inflight = {}
    /\ req = NoReq
    /\ resp = NoResponse
    /\ trace = <<>>

LookupStep ==
    /\ \E t \in 1..Len(tasks) :
        /\ tasks[t].at = "start"
        /\ LET local == lookupStep(orders, tasks[t].request)
           IN tasks' = [tasks EXCEPT ![t].local = local,
                                     ![t].at = IF local.found THEN "looked"
                                               ELSE "done"]
    /\ UNCHANGED <<pc, env, orders, inflight, req, resp, pre, trace>>

WriteStep ==
    /\ \E t \in 1..Len(tasks) :
        /\ tasks[t].at = "looked"
        /\ orders' = writeStep(orders, tasks[t].request, tasks[t].local)
        /\ tasks' = [tasks EXCEPT ![t].at = "done"]
    /\ UNCHANGED <<pc, env, inflight, req, resp, pre, trace>>

NextInterleaved ==
    \/ LookupStep
    \/ WriteStep

SpecInterleaved == InitInterleaved /\ [][NextInterleaved]_vars

RECURSIVE SerialOutcomes(_, _)
\* the stores the handlers of the tasks ts leave when run one after another,
\* in every order
SerialOutcomes(os, ts) ==
    IF ts = {} THEN {os}
    ELSE UNION {SerialOutcomes(handled(os, tasks[t].request), ts \ {t}) : t \in ts}

----------------------------------------------------------------------------
(* C1: once an order is paid, a correctly signed payment.pending or          *)
(* payment.failed webhook for that order leaves its status paid.             *)
C1_NoRegression ==
    (/\ IsWebhook /\ WebhookSigned
     /\ req.body.event \in {"payment.failed", "payment.pending"})
        => \A i \in 1..Len(pre) :
            (pre[i].status = "paid"
                /\ pre[i].razorpayOrderId = PaymentOrderId(req.body.payload))
                => orders[i].status = "paid"

(* C2: a valid verify-payment callback for a registered order answers        *)
(* success with the order paid, and the same callback sent again answers     *)
(* success with the same local order id and leaves the store as it is.       *)
C2_CallbackIdempotent ==
    (/\ IsCallback /\ CallbackSigned
     /\ Resolve(pre, req.body.razorpay_order_id) # 0)
        => /\ resp.status = 200
           /\ \E i \in 1..Len(orders) :
                /\ orders[i].ourId = resp.ourOrderId
                /\ orders[i].razorpayOrderId = req.body.razorpay_order_id
                /\ orders[i].status = "paid"
           /\ Again(orders).orders = orders
           /\ Again(orders).resp.status = 200
           /\ Again(orders).resp.ourOrderId = resp.ourOrderId

\* the callback really arrived a second time: the order was already paid
C2_Witness ==
    /\ IsCallback /\ CallbackSigned
    /\ Resolve(pre, req.body.razorpay_order_id) # 0
    /\ pre[Resolve(pre, req.body.razorpay_order_id)].status = "paid"
    /\ resp.status = 200
    /\ orders = pre

(* C3: a verify-payment callback whose signature is not the digest of        *)
(* order id | payment id under the secret is answered 400 invalid signature  *)
(* and leaves the store untouched, whether or not the order is registered.   *)
C3_BadCallbackSignatureRejected ==
    (IsCallback /\ CallbackComplete /\ ~CallbackSigned)
        => /\ resp.status = 400
           /\ resp.body \in {"Invalid signature", "invalid signature"}
           /\ orders = pre

C3_Witness ==
    /\ req.route = "verify-payment" /\ CallbackComplete /\ ~CallbackSigned
    /\ req.body.razorpay_signature # "forged"
    /\ Resolve(pre, req.body.razorpay_order_id) # 0
    /\ resp.status = 400

(* C4: a webhook whose signature header is not the digest of the raw body    *)
(* under the webhook secret is answered with a rejection (not a success)     *)
(* and leaves the store untouched, whatever its event and payload.           *)
C4_BadWebhookSignatureRejected ==
    (IsWebhook /\ ~WebhookSigned)
        => /\ resp.status # 200
           /\ orders = pre

(* C5: a correctly signed verify-payment callback for a gateway order id no  *)
(* record carries is answered 404 order not found and leaves the store       *)
(* untouched.                                                                *)
C5_UnknownOrderNotFound ==
    (/\ IsCallback /\ CallbackSigned
     /\ Resolve(pre, req.body.razorpay_order_id) = 0)
        => /\ resp.status = 404
           /\ resp.body \in {"Order not found", "order_not_found"}
           /\ orders = pre

C5_Witness ==
    /\ IsCallback /\ CallbackSigned
    /\ Resolve(pre, req.body.razorpay_order_id) = 0
    /\ Len(pre) > 0
    /\ resp.status = 404

(* C6: a verify-payment callback with the order id, the payment id or the    *)
(* signature absent or empty is answered 400 missing fields before any       *)
(* digest is computed or the store is looked up, and the store is untouched. *)
C6_MissingFieldsFirst ==
    (IsCallback /\ ~CallbackComplete)
        => /\ resp.status = 400
           /\ resp.body \in {"Missing required fields", "missing fields"}
           /\ trace = <<>>
           /\ orders = pre

C6_Witness ==
    /\ IsCallback
    /\ Missing(req.body) = {"razorpay_signature"}
    /\ Resolve(pre, req.body.razorpay_order_id) # 0
    /\ resp.status = 400

(* C7: a correctly signed webhook whose payload names no gateway order id    *)
(* (a missing or malformed payload included), or names one no record         *)
(* carries, is acknowledged with success and changes nothing in the store.   *)
C7_UnresolvableWebhookAcknowledged ==
    (/\ IsWebhook /\ WebhookSigned
     /\ \/ ~Truthy(NamedOrderId(req.body))
        \/ Resolve(pre, NamedOrderId(req.body)) = 0)
        => /\ resp.status = 200
           /\ orders = pre

\* a success event with no payload at all, while an order awaits payment
C7_Witness ==
    /\ IsWebhook /\ WebhookSigned
    /\ req.rawBody # Undefined
    /\ req.body.event \in SuccessEvents
    /\ req.body.payload.kind = "undefined"
    /\ Len(pre) > 0
    /\ resp.status = 200

C9_SuccessWebhookPaysOnce ==
    (/\ IsWebhook /\ WebhookSigned
     /\ req.rawBody # Undefined
     /\ req.body.event \in SuccessEvents
     /\ Resolve(pre, NamedOrderId(req.body)) # 0
     /\ pre[Resolve(pre, NamedOrderId(req.body))].status = "pending")
        => /\ orders[Resolve(pre, NamedOrderId(req.body))].status = "paid"
           /\ resp.status = 200
           /\ Again(orders).orders = orders
           /\ Again(orders).resp.status = 200
           /\ Again(Again(orders).orders).orders = orders

C9_Witness ==
    /\ IsWebhook /\ WebhookSigned
    /\ req.rawBody # Undefined
    /\ req.body.event = "payment.authorized"
    /\ Resolve(pre, NamedOrderId(req.body)) # 0
    /\ pre[Resolve(pre, NamedOrderId(req.body))].status = "pending"
    /\ orders[Resolve(pre, NamedOrderId(req.body))].status = "paid"

(* C10: a correctly signed payment.failed webhook naming a pending order     *)
(* makes it failed; a second payment.failed webhook for it leaves it failed, *)
(* writes nothing to the store and is acknowledged with success.             *)
C10_FailedWebhookIdempotent ==
    (/\ IsWebhook /\ WebhookSigned
     /\ req.rawBody # Undefined
     /\ req.body.event = "payment.failed"
     /\ Resolve(pre, NamedOrderId(req.body)) # 0
     /\ pre[Resolve(pre, NamedOrderId(req.body))].status = "pending")
        => /\ orders[Resolve(pre, NamedOrderId(req.body))].status = "failed"
           /\ resp.status = 200
           /\ Again(orders).orders = orders
           /\ ~Did(Again(orders).trace, "setOrderStatus")
           /\ Again(orders).resp.status = 200

C10_Witness ==
    /\ IsWebhook /\ WebhookSigned
    /\ req.rawBody # Undefined
    /\ req.body.event = "payment.failed"
    /\ Resolve(pre, NamedOrderId(req.body)) # 0
    /\ pre[Resolve(pre, NamedOrderId(req.body))].status = "pending"
    /\ orders[Resolve(pre, NamedOrderId(req.body))].status = "failed"

(* C11: a correctly signed payment.pending webhook naming an order whose     *)
(* status is failed is ignored: the order stays failed.                      *)
C11_PendingIgnoredWhenFailed ==
    (/\ IsWebhook /\ WebhookSigned
     /\ req.rawBody # Undefined
     /\ req.body.event = "payment.pending"
     /\ Resolve(pre, NamedOrderId(req.body)) # 0
     /\ pre[Resolve(pre, NamedOrderId(req.body))].status = "failed")
        => /\ orders[Resolve(pre, NamedOrderId(req.body))].status = "failed"
           /\ orders = pre

(* C12: a correctly signed verify-payment callback whose razorpay_order_id   *)
(* resolves to a record leaves that record paid whatever its status was      *)
(* (pending, failed or paid), and the success response carries the local id  *)
(* of the record whose razorpayOrderId is the one in the request.            *)
C12_CallbackPaysResolvedOrder ==
    (/\ IsCallback /\ CallbackSigned
     /\ Resolve(pre, req.body.razorpay_order_id) # 0)
        => LET i == Resolve(pre, req.body.razorpay_order_id)
           IN /\ pre[i].status \in {"pending", "failed", "paid"}
              /\ orders[i] = [pre[i] EXCEPT !.status = "paid"]
              /\ resp.status = 200
              /\ resp.ourOrderId = pre[i].ourId
              /\ pre[i].razorpayOrderId = req.body.razorpay_order_id

\* the order was failed, and it is not the first entry of the store
C12_Witness ==
    /\ IsCallback /\ CallbackSigned
    /\ Resolve(pre, req.body.razorpay_order_id) = 2
    /\ pre[1].razorpayOrderId # req.body.razorpay_order_id
    /\ pre[2].status = "failed"
    /\ orders[2].status = "paid"
    /\ resp.ourOrderId = pre[2].ourId

(* C13: every record createLocalOrder inserts has status pending, and        *)
(* inserting under an ourOrderId that already has a record fails and leaves  *)
(* the existing record (its status and razorpayOrderId included) unchanged.  *)
C13_DuplicateKeyRejected ==
    (req.route = "create-order" /\ Did(trace, "createLocalOrder"))
        => /\ \E i \in 1..Len(orders) :
                /\ orders[i].ourId = req.ourOrderId
                /\ orders[i].status = "pending"
           /\ \A i \in 1..Len(pre) :
                pre[i].ourId = req.ourOrderId => orders[i] = pre[i]

(* C14: setOrderStatus called with an ourOrderId the store has no record of  *)
(* reports not-found and leaves the store as it was (no record is made);     *)
(* called with a present id it changes that record's status to the value     *)
(* given and nothing else in the store.                                      *)
C14_SetOrderStatusFrame ==
    req.route = "setOrderStatus"
        => IF \A i \in 1..Len(pre) : pre[i].ourId # req.ourOrderId
           THEN resp.value = "false" /\ orders = pre
           ELSE /\ Len(orders) = Len(pre)
                /\ \A i \in 1..Len(pre) :
                    orders[i] = IF pre[i].ourId = req.ourOrderId
                                THEN [pre[i] EXCEPT !.status = req.status]
                                ELSE pre[i]

\* the id was absent from a store that holds other records
C14_Witness ==
    /\ req.route = "setOrderStatus"
    /\ Len(pre) = 2
    /\ \A i \in 1..Len(pre) : pre[i].ourId # req.ourOrderId
    /\ resp.value = "false"
    /\ orders = pre

(* C15 as stated: setOrderStatus on a present ourOrderId returns the status  *)
(* the record had before the call.                                           *)
C15_ReturnsPreviousStatus ==
    (/\ req.route = "setOrderStatus"
     /\ \E i \in 1..Len(pre) : pre[i].ourId = req.ourOrderId)
        => \E i \in 1..Len(pre) :
            /\ pre[i].ourId = req.ourOrderId
            /\ resp.value = pre[i].status

(* C15 amended: setOrderStatus on a present ourOrderId returns true whatever *)
(* status the record had before, the status being set included, and false on *)
(* an absent id; the return value is never a status.                         *)
C15_ReturnsWhetherFound ==
    req.route = "setOrderStatus"
        => /\ resp.value =
                JsBoolean(\E i \in 1..Len(pre) : pre[i].ourId = req.ourOrderId)
           /\ resp.value \notin Statuses

\* the record already had the status being set, and the call returned true
C15_Witness ==
    /\ req.route = "setOrderStatus"
    /\ \E i \in 1..Len(pre) :
        /\ pre[i].ourId = req.ourOrderId
        /\ pre[i].status = req.status
        /\ pre[i].status = "paid"
    /\ resp.value = "true"

(* C16: getByRazorpayOrderId returns null for a gateway order id never       *)
(* inserted, and for an inserted one the inserted record with all its fields *)
(* and its local id: a gateway order id that a record was inserted with      *)
(* (one the store held when the request arrived) is still found afterwards.  *)
C16_InsertedIsFound ==
    /\ \A g \in GatewayIds \cup {AbsentGatewayId} :
        (\A i \in 1..Len(orders) : orders[i].razorpayOrderId # g)
            => getByRazorpayOrderId(orders, g) = NoOrder
    /\ \A i \in 1..Len(pre) :
        LET r == getByRazorpayOrderId(orders, pre[i].razorpayOrderId)
        IN /\ r.found
           /\ r.razorpayOrderId = pre[i].razorpayOrderId
           /\ \E j \in 1..Len(orders) :
                /\ orders[j].ourId = r.ourId
                /\ orders[j].amount = r.amount
                /\ orders[j].currency = r.currency
                /\ orders[j].status = r.status
                /\ orders[j].createdAt = r.createdAt

(* C17: when several records carry the same razorpayOrderId the lookup is a  *)
(* data-integrity fault, not a silent pick of one of them: no verify-payment *)
(* callback and no webhook changes the status of just one of several records *)
(* that share a gateway order id.                                            *)
C17_NoSilentPick ==
    (IsCallback \/ IsWebhook)
        => \A i, j \in 1..Len(pre) :
            pre[i].razorpayOrderId = pre[j].razorpayOrderId
                => (orders[i].status # pre[i].status
                        <=> orders[j].status # pre[j].status)

(* C18: when a callback and a webhook delivery, or two webhook deliveries,   *)
(* for the same order are handled at once, every interleaving of their       *)
(* lookup and status-write steps ends in a store that running the same       *)
(* handlers one after another, in some order, would produce.                 *)
C18_InterleavingsSerializable ==
    (tasks # <<>> /\ \A t \in 1..Len(tasks) : tasks[t].at = "done")
        => orders \in SerialOutcomes(pre, 1..Len(tasks))

\* a payment.failed webhook and a callback both looked the order up while it
\* was pending, both wrote, and the webhook's write came last
C18_Witness ==
    /\ tasks # <<>>
    /\ \A t \in 1..Len(tasks) : tasks[t].at = "done"
    /\ tasks[1].request = WebhookFor("payment.failed")
    /\ tasks[2].request = CallbackFor("verify-payment")
    /\ tasks[1].local.status = "pending"
    /\ tasks[2].local.status = "pending"
    /\ getByRazorpayOrderId(orders, SameOrder).status = "failed"

(* C19: for every razorpay_order_id, razorpay_payment_id and secret tried,   *)
(* both verify-payment handlers accept the signature                         *)
(* Hmac(secret, order id + "|" + payment id), and reject the request when    *)
(* the signature, the order id or the payment id differs from the signed     *)
(* one in a single position; a rejected request leaves the store alone.      *)
C19_SignatureBindsBothIds ==
    (IsCallback /\ req.tampered \in {"none", "razorpay_order_id",
                                     "razorpay_payment_id", "razorpay_signature"})
        => LET signed ==
                [razorpay_order_id |-> req.signedOrderId,
                 razorpay_payment_id |-> req.signedPaymentId,
                 razorpay_signature |->
                    Hmac(CallbackSecret,
                         req.signedOrderId \o "|" \o req.signedPaymentId)]
           IN IF req.tampered = "none"
              THEN /\ req.body = signed
                   /\ Did(trace, "signature_ok")
                   /\ resp.status \in {200, 404}
              ELSE /\ req.body[req.tampered] # signed[req.tampered]
                   /\ \A f \in DOMAIN signed \ {req.tampered} :
                        req.body[f] = signed[f]
                   /\ ~Did(trace, "signature_ok")
                   /\ resp.status = 400
                   /\ resp.body \in {"Invalid signature", "invalid signature"}
                   /\ orders = pre

\* one character of the order id was changed, into the id of a stored order,
\* and the request was rejected
C19_Witness ==
    /\ IsCallback
    /\ req.tampered = "razorpay_order_id"
    /\ req.signedOrderId = "|"
    /\ req.body.razorpay_order_id = "a"
    /\ Resolve(pre, "a") # 0
    /\ resp.status = 400

(* C20: create-order does nothing to the store until the gateway call has    *)
(* returned an order: the store is as it was when the handler suspends at    *)
(* the call, when the call fails (and then the request is gone: no local     *)
(* order is ever created for it), and when validation rejects the request,   *)
(* in which case the gateway is not called either; only the successful       *)
(* return adds the record, and nothing else.                                 *)
C20_NoRecordBeforeGatewayReturns ==
    req.route = "create-order"
        => /\ resp.status \in {0, 400, 500, 200}
           /\ resp.status # 200 => orders = pre
           /\ resp.status = 0 => trace = <<"rzp.orders.create">>
           /\ resp.status = 400
                => /\ createOrderError([amount |-> req.amount,
                                        currency |-> req.currency]) # ""
                   /\ ~Did(trace, "rzp.orders.create")
                   /\ ~Did(trace, "createLocalOrder")
                   /\ req.ourOrderId = Undefined
           /\ resp.status = 500
                => /\ ~Did(trace, "createLocalOrder")
                   /\ \A c \in inflight :
                        ~(/\ c.ourOrderId = req.ourOrderId
                          /\ c.amount = req.amount
                          /\ c.currency = req.currency)
           /\ resp.status = 200
                => /\ trace = <<"createLocalOrder">>
                   /\ \E g \in GatewayIds, t \in 1..(MaxClock + 1) :
                        orders = createLocalOrder(pre, req.ourOrderId, req.amount,
                                                  req.currency, g, t)

\* the gateway call failed while the store held an order, and nothing changed
C20_Witness ==
    /\ req.route = "create-order"
    /\ resp.status = 500
    /\ trace = <<"throw">>
    /\ Len(pre) = 1
    /\ orders = pre

\* the gateway order id the request at hand names, Undefined when it names none
SignalOrderId ==
    IF IsCallback THEN req.body.razorpay_order_id ELSE NamedOrderId(req.body)

(* C21: the verify-payment and webhook handlers change at most the status of *)
(* at most one record, one whose razorpayOrderId is the id the request       *)
(* names: they add and delete no record and leave the razorpayOrderId,       *)
(* amount, currency and createdAt (and the key) of every record and the      *)
(* status of every other record as they were; the order-status query         *)
(* changes nothing.                                                          *)
C21_HandlersChangeOneStatus ==
    /\ (IsCallback \/ IsWebhook)
        => /\ Len(orders) = Len(pre)
           /\ \A i \in 1..Len(pre) : orders[i] = [pre[i] EXCEPT !.status = orders[i].status]
           /\ \A i, j \in 1..Len(pre) :
                (orders[i].status # pre[i].status /\ orders[j].status # pre[j].status)
                    => i = j
           /\ \A i \in 1..Len(pre) :
                orders[i].status # pre[i].status
                    => pre[i].razorpayOrderId = SignalOrderId
    /\ req.route = "order-status" => orders = pre

\* a webhook changed the status of the second record and nothing else
C21_Witness ==
    /\ IsWebhook
    /\ Len(pre) = 2
    /\ orders[1] = pre[1]
    /\ orders[2].status # pre[2].status
    /\ orders[2] = [pre[2] EXCEPT !.status = "failed"]
    /\ pre[2].razorpayOrderId = SignalOrderId

(* C22: for every correctly signed webhook whose event maps to a status      *)
(* (payment.captured, payment.authorized, order.paid to paid, payment.failed *)
(* to failed, payment.pending to pending), the order acted on is the one     *)
(* whose razorpayOrderId is the payment entity's order_id when the payload   *)
(* has one, and the order entity's id otherwise.                             *)
C22_PaymentOrderIdElseOrderId ==
    (/\ IsWebhook /\ WebhookSigned
     /\ req.rawBody # Undefined
     /\ req.body.event \in SuccessEvents \cup {"payment.failed", "payment.pending"}
     /\ req.body.payload.kind = "object")
        => LET g == IF Truthy(PaymentOrderId(req.body.payload))
                    THEN PaymentOrderId(req.body.payload)
                    ELSE OrderEntityId(req.body.payload)
               i == Resolve(pre, g)
           IN i # 0
                => /\ orders[i].status =
                        (IF req.body.event \in SuccessEvents THEN "paid"
                         ELSE IF req.body.event = "payment.failed" THEN "failed"
                         ELSE "pending")
                   /\ \A j \in 1..Len(pre) : j # i => orders[j] = pre[j]

(* C23: a correctly signed webhook whose event is refund.created, or any     *)
(* event the switch does not map to a status, leaves the whole store         *)
(* unchanged and is acknowledged with 200 "ok", whatever its payload.        *)
C23_UnmappedEventsChangeNothing ==
    (/\ IsWebhook /\ WebhookSigned
     /\ req.rawBody # Undefined
     /\ req.body.event \notin SuccessEvents \cup {"payment.failed", "payment.pending"})
        => /\ orders = pre
           /\ resp.status = 200
           /\ resp.body = "ok"
           /\ ~Did(trace, "setOrderStatus")

\* refund.created naming, in its payload, an order the store holds as pending
C23_Witness ==
    /\ IsWebhook /\ WebhookSigned
    /\ req.rawBody # Undefined
    /\ req.body.event = "refund.created"
    /\ req.body.payload.kind = "object"
    /\ Resolve(pre, PaymentOrderId(req.body.payload)) # 0
    /\ pre[Resolve(pre, PaymentOrderId(req.body.payload))].status = "pending"
    /\ orders = pre
    /\ resp.status = 200

(* C24: signature failures are never swallowed on the webhook path: every    *)
(* webhook request answered 200 had a raw body captured and a signature      *)
(* header equal to the digest of that raw body under the webhook secret.     *)
C24_AcknowledgedOnlyIfVerified ==
    (IsWebhook /\ resp.status = 200)
        => /\ req.rawBody # Undefined
           /\ req.signature = Hmac(env.RZP_WEBHOOK_SECRET, req.rawBody)
           /\ Did(trace, "signature_ok")

(* C25: the router's verify-payment never answers 500                        *)
(* failed_to_update_order: it calls setOrderStatus only with the local id    *)
(* getByRazorpayOrderId has just returned, so the update finds the record;   *)
(* in every store the program reaches, a record found by the lookup is       *)
(* found by the update.                                                      *)
C25_RouterUpdateNeverFails ==
    /\ req.route = "router/verify-payment"
        => /\ resp.status \in {200, 400, 404}
           /\ resp.body # "failed_to_update_order"
           /\ Did(trace, "setOrderStatus") => resp.status = 200
    /\ \A g \in GatewayIds :
        LET local == getByRazorpayOrderId(orders, g)
        IN local.found => setOrderStatus(orders, local.ourId, "paid").ok

\* the router updated an order that was already paid and answered 200
C25_Witness ==
    /\ req.route = "router/verify-payment"
    /\ Did(trace, "setOrderStatus")
    /\ Resolve(pre, req.body.razorpay_order_id) # 0
    /\ pre[Resolve(pre, req.body.razorpay_order_id)].status = "paid"
    /\ resp.status = 200

====
